---- MODULE Spec2Model ----
(***************************************************************************)
(* PyNBTEditor (src/main.py): the NBTViewer widget as a state machine.     *)
(*                                                                         *)
(* Bytes are naturals 0..255.  Text (Python str) is a sequence of code     *)
(* points; only code points below 128 occur in streams, for which UTF-8    *)
(* maps one byte to one code point.  A tag is the record                   *)
(*   [id, name, value, tagID, tags]                                        *)
(* with value = [t, num, text], t in {"none", "int", "str"}: the Python    *)
(* attribute tag.value may hold None, an int or a str.                     *)
(***************************************************************************)
EXTENDS Integers, Sequences, FiniteSets, TLC

(***************************************************************************)
(* Bounds of the model.                                                    *)
(***************************************************************************)
\* openFile calls in one run of the application
MaxOpens == 2
\* user edits of a cell in one run of the application
MaxEdits == 1
\* chunks after the root header in the byte streams of SpecCodec
MaxChunks == 2

(***************************************************************************)
(* Tag kind ids of the NBT wire format (spec section 3).                   *)
(***************************************************************************)
TAG_End == 0
TAG_Byte == 1
TAG_Short == 2
TAG_String == 8
TAG_List == 9
TAG_Compound == 10

\* the non-breaking space U+00A0 prepended to leaf names
NBSP == 160

(***************************************************************************)
(* Python values and text.                                                 *)
(***************************************************************************)
NoneVal == [t |-> "none", num |-> 0, text |-> <<>>]
IntVal(n) == [t |-> "int", num |-> n, text |-> <<>>]
StrVal(s) == [t |-> "str", num |-> 0, text |-> s]

RECURSIVE StrNat(_)
\* str(n) for n >= 0: decimal digits as code points
StrNat(n) == IF n < 10 THEN <<48 + n>> ELSE StrNat(n \div 10) \o <<48 + (n % 10)>>

\* str(n) for an int
StrInt(n) == IF n < 0 THEN <<45>> \o StrNat(0 - n) ELSE StrNat(n)

\* str(x) for a Python value
PyStr(v) ==
  CASE v.t = "int" -> StrInt(v.num)
    [] v.t = "str" -> v.text
    [] OTHER -> <<78, 111, 110, 101>>

\* Python's  p in t  on str
IsSubstring(p, t) ==
  \E i \in 0..(Len(t) - Len(p)) : SubSeq(t, i + 1, i + Len(p)) = p

(***************************************************************************)
(* The NBT codec behind nbt.NBTFile(...) and NBTFile.write_file(...).      *)
(* Its code is not part of src/; it is modelled from spec sections 4.2     *)
(* (Decoder) and 4.3 (Encoder) for the kinds Byte, Short, String, List and *)
(* Compound.  The byte streams of this model never hold another kind id    *)
(* below 13 in a kind position.                                            *)
(***************************************************************************)
Tag(id, name, value, tagID, tags) ==
  [id |-> id, name |-> name, value |-> value, tagID |-> tagID, tags |-> tags]

EmptyCompound == Tag(TAG_Compound, <<>>, NoneVal, TAG_End, <<>>)

IsContainer(tag) == tag.id \in {TAG_Compound, TAG_List}

Signed8(b) == IF b >= 128 THEN b - 256 ELSE b
Signed16(hi, lo) == IF hi >= 128 THEN hi * 256 + lo - 65536 ELSE hi * 256 + lo
Signed32(b1, b2, b3, b4) ==
  ((Signed8(b1) * 256 + b2) * 256 + b3) * 256 + b4

Unsigned8(n) == IF n < 0 THEN n + 256 ELSE n
Bytes16(n) ==
  LET u == IF n < 0 THEN n + 65536 ELSE n IN <<u \div 256, u % 256>>
Bytes32(n) ==
  <<(n \div 16777216) % 256, (n \div 65536) % 256, (n \div 256) % 256, n % 256>>

Drop(s, n) == SubSeq(s, n + 1, Len(s))

ParseFail == [ok |-> FALSE, tag |-> EmptyCompound, rest |-> <<>>, strict |-> FALSE]
ParseOk(tag, rest, strict) == [ok |-> TRUE, tag |-> tag, rest |-> rest, strict |-> strict]

\* 2-byte big-endian length, then that many bytes of UTF-8 (here: ASCII)
ReadString(s) ==
  IF Len(s) < 2 THEN [ok |-> FALSE, text |-> <<>>, rest |-> <<>>]
  ELSE LET n == s[1] * 256 + s[2] IN
       IF Len(s) < 2 + n \/ \E i \in 3..(2 + n) : s[i] >= 128
       THEN [ok |-> FALSE, text |-> <<>>, rest |-> <<>>]
       ELSE [ok |-> TRUE, text |-> SubSeq(s, 3, 2 + n), rest |-> Drop(s, 2 + n)]

\* append (name, value) to a compound, overwriting a prior entry of that name
Upsert(tags, tag) ==
  IF \E i \in 1..Len(tags) : tags[i].name = tag.name
  THEN [i \in 1..Len(tags) |-> IF tags[i].name = tag.name THEN tag ELSE tags[i]]
  ELSE Append(tags, tag)

RECURSIVE ReadPayload(_, _, _)
RECURSIVE ReadElements(_, _, _, _, _)
RECURSIVE ReadCompoundBody(_, _, _)

\* the per-kind readers (step 4)
ReadPayload(kind, name, s) ==
  CASE kind = TAG_Byte ->
         IF Len(s) < 1 THEN ParseFail
         ELSE ParseOk(Tag(kind, name, IntVal(Signed8(s[1])), TAG_End, <<>>), Drop(s, 1), TRUE)
    [] kind = TAG_Short ->
         IF Len(s) < 2 THEN ParseFail
         ELSE ParseOk(Tag(kind, name, IntVal(Signed16(s[1], s[2])), TAG_End, <<>>),
                      Drop(s, 2), TRUE)
    [] kind = TAG_String ->
         LET r == ReadString(s) IN
         IF ~r.ok THEN ParseFail
         ELSE ParseOk(Tag(kind, name, StrVal(r.text), TAG_End, <<>>), r.rest, TRUE)
    [] kind = TAG_List ->
         IF Len(s) < 5 THEN ParseFail
         ELSE LET count == Signed32(s[2], s[3], s[4], s[5]) IN
              IF count <= 0
              THEN ParseOk(Tag(kind, name, NoneVal, s[1], <<>>), Drop(s, 5), count = 0)
              ELSE LET r == ReadElements(s[1], count, Drop(s, 5), <<>>, TRUE) IN
                   IF ~r.ok THEN ParseFail
                   ELSE ParseOk(Tag(kind, name, NoneVal, s[1], r.tags), r.rest, r.strict)
    [] kind = TAG_Compound ->
         LET r == ReadCompoundBody(s, <<>>, TRUE) IN
         IF ~r.ok THEN ParseFail
         ELSE ParseOk(Tag(kind, name, NoneVal, TAG_End, r.tags), r.rest, r.strict)
    [] OTHER -> ParseFail

\* count values of the declared element kind
ReadElements(kind, count, s, acc, strict) ==
  IF count = 0 THEN [ok |-> TRUE, tags |-> acc, rest |-> s, strict |-> strict]
  ELSE LET r == ReadPayload(kind, <<>>, s) IN
       IF ~r.ok THEN [ok |-> FALSE, tags |-> <<>>, rest |-> <<>>, strict |-> FALSE]
       ELSE ReadElements(kind, count - 1, r.rest, Append(acc, r.tag), strict /\ r.strict)

\* the compound body (step 3)
ReadCompoundBody(s, acc, strict) ==
  IF Len(s) < 1 THEN [ok |-> FALSE, tags |-> <<>>, rest |-> <<>>, strict |-> FALSE]
  ELSE IF s[1] = TAG_End THEN [ok |-> TRUE, tags |-> acc, rest |-> Drop(s, 1), strict |-> strict]
  ELSE LET n == ReadString(Drop(s, 1)) IN
       IF ~n.ok THEN [ok |-> FALSE, tags |-> <<>>, rest |-> <<>>, strict |-> FALSE]
       ELSE LET r == ReadPayload(s[1], n.text, n.rest) IN
            IF ~r.ok THEN [ok |-> FALSE, tags |-> <<>>, rest |-> <<>>, strict |-> FALSE]
            ELSE ReadCompoundBody(r.rest, Upsert(acc, r.tag),
                   strict /\ r.strict /\ \A i \in 1..Len(acc) : acc[i].name # r.tag.name)

\* decode(byte source) -> NamedTag (steps 1 and 2).  strict: no leniency of
\* the decoder was used and the whole stream was consumed.
Decode(s) ==
  IF Len(s) < 1 THEN ParseFail
  ELSE IF s[1] = TAG_End THEN ParseOk(EmptyCompound, Drop(s, 1), FALSE)
  ELSE IF s[1] # TAG_Compound THEN ParseFail
  ELSE LET n == ReadString(Drop(s, 1)) IN
       IF ~n.ok THEN ParseFail
       ELSE LET r == ReadPayload(TAG_Compound, n.text, n.rest) IN
            IF ~r.ok THEN ParseFail
            ELSE ParseOk(r.tag, r.rest, r.strict /\ r.rest = <<>>)

EncFail == [ok |-> FALSE, bytes |-> <<>>]
EncOk(b) == [ok |-> TRUE, bytes |-> b]

WriteString(text) == Bytes16(Len(text)) \o text

RECURSIVE WritePayload(_)
RECURSIVE WriteElements(_, _, _)
RECURSIVE WriteCompoundBody(_, _)

\* the per-kind writers, mirroring the readers
WritePayload(tag) ==
  CASE tag.id = TAG_Byte ->
         IF tag.value.t = "int" /\ tag.value.num \in -128..127
         THEN EncOk(<<Unsigned8(tag.value.num)>>) ELSE EncFail
    [] tag.id = TAG_Short ->
         IF tag.value.t = "int" /\ tag.value.num \in -32768..32767
         THEN EncOk(Bytes16(tag.value.num)) ELSE EncFail
    [] tag.id = TAG_String ->
         IF tag.value.t = "str" /\ \A i \in 1..Len(tag.value.text) : tag.value.text[i] < 128
         THEN EncOk(WriteString(tag.value.text)) ELSE EncFail
    [] tag.id = TAG_List ->
         LET r == WriteElements(tag.tagID, tag.tags, <<>>) IN
         IF ~r.ok THEN EncFail
         ELSE EncOk(<<tag.tagID>> \o Bytes32(Len(tag.tags)) \o r.bytes)
    [] tag.id = TAG_Compound -> WriteCompoundBody(tag.tags, <<>>)
    [] OTHER -> EncFail

\* the elements of a list; InvalidTree when a kind is not the declared one
WriteElements(kind, tags, acc) ==
  IF tags = <<>> THEN EncOk(acc)
  ELSE IF Head(tags).id # kind THEN EncFail
  ELSE LET r == WritePayload(Head(tags)) IN
       IF ~r.ok THEN EncFail ELSE WriteElements(kind, Tail(tags), acc \o r.bytes)

\* kind id, name and payload of every entry, then a single End byte
WriteCompoundBody(tags, acc) ==
  IF tags = <<>> THEN EncOk(acc \o <<TAG_End>>)
  ELSE LET r == WritePayload(Head(tags)) IN
       IF ~r.ok THEN EncFail
       ELSE WriteCompoundBody(Tail(tags),
              acc \o <<Head(tags).id>> \o WriteString(Head(tags).name) \o r.bytes)

\* encode(NamedTag) -> byte sink
Encode(root) ==
  LET r == WritePayload(root) IN
  IF ~r.ok THEN EncFail
  ELSE EncOk(<<TAG_Compound>> \o WriteString(root.name) \o r.bytes)

(***************************************************************************)
(* gzip (Python's gzip module), as a framing of the payload: the magic     *)
(* bytes 1F 8B, the data, and a trailer holding the length modulo 256.     *)
(* Reading an empty file yields no data; any other content that lacks the  *)
(* magic or a matching trailer raises (BadGzipFile, EOFError).             *)
(***************************************************************************)
GzipMagic == <<31, 139>>

Compress(b) == GzipMagic \o b \o <<Len(b) % 256>>

Decompress(c) ==
  IF c = <<>> THEN [ok |-> TRUE, bytes |-> <<>>]
  ELSE IF Len(c) >= 3 /\ SubSeq(c, 1, 2) = GzipMagic /\ c[Len(c)] = (Len(c) - 3) % 256
  THEN [ok |-> TRUE, bytes |-> SubSeq(c, 3, Len(c) - 1)]
  ELSE [ok |-> FALSE, bytes |-> <<>>]

(***************************************************************************)
(* The tag tree and the rows of the QTreeWidget.  A tag is referred to by  *)
(* its path from the root (the structure of a loaded tree never changes);  *)
(* rows are kept in the order of QTreeWidgetItemIterator (pre-order).      *)
(***************************************************************************)
RECURSIVE TagAt(_, _)
TagAt(root, path) ==
  IF path = <<>> THEN root ELSE TagAt(root.tags[Head(path)], Tail(path))

RECURSIVE SetValueAt(_, _, _)
\* tag.value = v  for the tag at path
SetValueAt(root, path, v) ==
  IF path = <<>> THEN [root EXCEPT !.value = v]
  ELSE [root EXCEPT !.tags[Head(path)] = SetValueAt(@, Tail(path), v)]

\* QTreeWidgetItem(parent): a new row, no text, no data, default flags
NewItem(st, path) ==
  [st EXCEPT !.rows = Append(@, [path |-> path, text0 |-> <<>>, text1 |-> <<>>,
                                 hasTag |-> FALSE, editable |-> FALSE, hl |-> "unset"])]

\* def updateNBT(self, item, column), the slot of tree.itemChanged
UpdateNBT(st, i, column) ==
  IF column = 1
  THEN IF st.rows[i].hasTag
       THEN [st EXCEPT !.root = SetValueAt(@, st.rows[i].path, StrVal(st.rows[i].text1))]
       ELSE st
  ELSE st

\* item.setText(column, text); the widget emits itemChanged(item, column)
SetText(st, i, column, text) ==
  UpdateNBT(IF column = 0 THEN [st EXCEPT !.rows[i].text0 = text]
                          ELSE [st EXCEPT !.rows[i].text1 = text], i, column)

\* item.setData(0, Qt.UserRole, tag); emits itemChanged(item, 0)
SetData(st, i) == UpdateNBT([st EXCEPT !.rows[i].hasTag = TRUE], i, 0)

\* item.setFlags(item.flags() | Qt.ItemIsEditable); emits itemChanged(item, 0)
SetFlags(st, i) == UpdateNBT([st EXCEPT !.rows[i].editable = TRUE], i, 0)

\* the count of sub-entries left out
ContainerLabel_NameOnly(n, name) == name

\* f"[{len(tag)}] {name}"
ContainerLabel(n, name) == <<91>> \o StrNat(n) \o <<93, 32>> \o name

\* f" {name}"
LeafLabel(name) == <<NBSP>> \o name

\* the tag reference stored before the value text is set
PopulateLeaf_DataFirst(st, path, name) ==
  LET i  == Len(st.rows) + 1
      s1 == NewItem(st, path)
      s2 == SetText(s1, i, 0, LeafLabel(name))
      s3 == SetData(s2, i)
      s4 == SetText(s3, i, 1, PyStr(TagAt(s3.root, path).value))
  IN  SetFlags(s4, i)

\* the leaf branch of populateTree: text 0, text 1, then the tag reference
PopulateLeaf(st, path, name) ==
  LET i  == Len(st.rows) + 1
      s1 == NewItem(st, path)
      s2 == SetText(s1, i, 0, LeafLabel(name))
      s3 == SetText(s2, i, 1, PyStr(TagAt(s2.root, path).value))
      s4 == SetData(s3, i)
  IN  SetFlags(s4, i)

\* nbtFile[tag_name]: the first tag of that name
Lookup(tags, name) ==
  CHOOSE i \in 1..Len(tags) :
    tags[i].name = name /\ \A j \in 1..(i - 1) : tags[j].name # name

RECURSIVE PopulateChildren(_, _, _)
RECURSIVE PopulateItem(_, _, _)

\* the body of either for loop, for the k-th child of the container at path
PopulateItem(st, path, k) ==
  LET node  == TagAt(st.root, path)
      idx   == IF node.id = TAG_Compound THEN Lookup(node.tags, node.tags[k].name) ELSE k
      name  == IF node.id = TAG_Compound THEN node.tags[k].name ELSE StrNat(k - 1)
      cpath == Append(path, idx)
      tag   == TagAt(st.root, cpath)
  IN  IF IsContainer(tag)
      THEN LET i  == Len(st.rows) + 1
               s1 == NewItem(st, cpath)
               s2 == SetText(s1, i, 0, ContainerLabel(Len(tag.tags), name))
               s3 == PopulateChildren(s2, cpath, 1)
               s4 == SetData(s3, i)
           IN  SetFlags(s4, i)
      ELSE PopulateLeaf(st, cpath, name)

PopulateChildren(st, path, k) ==
  IF k > Len(TagAt(st.root, path).tags) THEN st
  ELSE PopulateChildren(PopulateItem(st, path, k), path, k + 1)

\* def populateTree(self, nbtFile, parent), called on the root compound
populateTree(root) == PopulateChildren([root |-> root, rows |-> <<>>], <<>>, 1)

(***************************************************************************)
(* Search highlighting.  setBackground and setForeground store a brush in  *)
(* the item; when the stored brush changes the widget emits itemChanged    *)
(* for that column.  The four brushes of a row are always set together, so *)
(* one field hl stands for them.                                           *)
(***************************************************************************)
\* setBackground(0), setBackground(1), setForeground(0), setForeground(1)
SetBrushes(st, i, h) ==
  IF st.rows[i].hl = h THEN st
  ELSE LET s0 == [st EXCEPT !.rows[i].hl = h]
       IN  UpdateNBT(UpdateNBT(UpdateNBT(UpdateNBT(s0, i, 0), i, 1), i, 0), i, 1)

RECURSIVE ResetBrushes(_, _, _)
\* for item in self.searchResults: the four brushes of the not-found look
ResetBrushes(st, results, k) ==
  IF k > Len(results) THEN st
  ELSE ResetBrushes(SetBrushes(st, results[k].idx, "normal"), results, k + 1)

\* def showCurrentSearchResult(self).  An item of a tree that was cleared is a
\* deleted C++ object: using it raises RuntimeError.
showCurrentSearchResult(st, results, index, gen) ==
  IF results = <<>> THEN [root |-> st.root, rows |-> st.rows, exc |-> ""]
  ELSE IF results[1].gen # gen
  THEN [root |-> st.root, rows |-> st.rows, exc |-> "RuntimeError"]
  ELSE LET s1 == ResetBrushes(st, results, 1)
           s2 == SetBrushes(s1, results[index + 1].idx, "current")
       IN  [root |-> s2.root, rows |-> s2.rows, exc |-> ""]

\* def updateSearchResultLabel(self)
updateSearchResultLabel(results, index) ==
  IF results # <<>> THEN StrNat(index + 1) \o <<47>> \o StrNat(Len(results))
  ELSE <<48, 47, 48>>

RECURSIVE Matches(_, _, _, _)
\* the while loop of search: the rows whose name or value text holds the text
Matches(rows, text, gen, k) ==
  IF k > Len(rows) THEN <<>>
  ELSE (IF IsSubstring(text, rows[k].text0) \/ IsSubstring(text, rows[k].text1)
        THEN <<[gen |-> gen, idx |-> k]>> ELSE <<>>) \o Matches(rows, text, gen, k + 1)

(***************************************************************************)
(* The files the dialogs offer, and what the two branches of openFile and  *)
(* saveFile do with them.  nbt.NBTFile(filename, 'rb') and                 *)
(* write_file(filename) go through GzipFile(filename) (the NBT library's   *)
(* contract for a file name: the data is gzip-compressed); with a buffer   *)
(* the library reads and writes the bytes as they are.                     *)
(***************************************************************************)
Files == {[stem |-> "level", ext |-> ".dat"], [stem |-> "chunk", ext |-> ".nbt"]}
NoFile == [stem |-> "", ext |-> ""]

\* os.path.splitext(fileName)[1]
splitext(f) == f.ext

Loaded(ok, tag, stream, strict, exc) ==
  [ok |-> ok, tag |-> tag, stream |-> stream, strict |-> strict, exc |-> exc]

\* with gzip.open(fileName, 'rb') as f: self.nbtFile = nbt.NBTFile(buffer=f)
ReadDat(content) ==
  LET d == Decompress(content) IN
  IF ~d.ok THEN Loaded(FALSE, EmptyCompound, <<>>, FALSE, "BadGzipFile")
  ELSE LET p == Decode(d.bytes) IN
       IF ~p.ok THEN Loaded(FALSE, EmptyCompound, d.bytes, FALSE, "MalformedFileError")
       ELSE Loaded(TRUE, p.tag, d.bytes, p.strict, "")

\* self.nbtFile = nbt.NBTFile(fileName, 'rb')
ReadOther(content) ==
  LET d == Decompress(content) IN
  IF ~d.ok THEN Loaded(FALSE, EmptyCompound, <<>>, FALSE, "BadGzipFile")
  ELSE LET p == Decode(d.bytes) IN
       IF ~p.ok THEN Loaded(FALSE, EmptyCompound, d.bytes, FALSE, "MalformedFileError")
       ELSE Loaded(TRUE, p.tag, d.bytes, p.strict, "")

\* f.write(byte_io.getvalue()) left out
WriteDat_Unwritten(old, hasTree, root) ==
  [content |-> Compress(<<>>), exc |-> IF hasTree THEN "" ELSE "AttributeError"]

\* the '.dat' branch of saveFile: gzip.open(fileName, 'wb') creates the file
\* before self.nbtFile is used; leaving the with block closes the stream
WriteDat(old, hasTree, root) ==
  IF ~hasTree THEN [content |-> Compress(<<>>), exc |-> "AttributeError"]
  ELSE LET e == Encode(root) IN
       IF ~e.ok THEN [content |-> Compress(<<>>), exc |-> "struct.error"]
       ELSE [content |-> Compress(e.bytes), exc |-> ""]

\* the other branch: self.nbtFile.write_file(fileName).  When a tag cannot be
\* rendered the file was already opened for writing and is left cut off.
WriteOther(old, hasTree, root) ==
  IF ~hasTree THEN [content |-> old, exc |-> "AttributeError"]
  ELSE LET e == Encode(root) IN
       IF ~e.ok THEN [content |-> GzipMagic, exc |-> "struct.error"]
       ELSE [content |-> Compress(e.bytes), exc |-> ""]

(***************************************************************************)
(* State.  Every handler is a slot run by the Qt event loop, one at a      *)
(* time.  No slot catches anything and no excepthook is installed: an      *)
(* exception that leaves a slot ends the application (PyQt5 calls          *)
(* qFatal), so no handler runs once exc is set.  A cancelled file dialog   *)
(* returns an empty name and the handler does nothing; expandAll changes   *)
(* only which rows the view shows expanded.  Neither is an action here.    *)
(***************************************************************************)
VARIABLES
  disk,               \* file -> bytes
  attrs,              \* the instance attributes assigned so far
  nbtFile,            \* self.nbtFile: [isNone, root]
  tree,               \* the rows of self.tree
  treeGen,            \* which population of self.tree the rows are
  searchText,         \* self.searchField.text()
  searchResultLabel,  \* [text, visible]
  prevEnabled,        \* self.prevAction.isEnabled()
  nextEnabled,        \* self.nextAction.isEnabled()
  searchResults,      \* self.searchResults: rows as [gen, idx]
  searchResultIndex,  \* self.searchResultIndex
  exc,                \* the exception that left a slot; the application ends
  last,               \* history: the handler that ran last and its input
  session,            \* history: the stream of the last openFile
  opens,              \* history: openFile calls so far
  edits               \* history: cell edits so far

vars == <<disk, attrs, nbtFile, tree, treeGen, searchText, searchResultLabel,
          prevEnabled, nextEnabled, searchResults, searchResultIndex, exc,
          last, session, opens, edits>>

gui == <<searchText, searchResultLabel, prevEnabled, nextEnabled>>
found == <<searchResults, searchResultIndex>>

StreamA == <<10, 0, 0,  1, 0, 1, 97, 5,  9, 0, 1, 108, 1, 0, 0, 0, 1, 7,  0>>
StreamB == <<10, 0, 0,  10, 0, 1, 99,  8, 0, 1, 115, 0, 1, 97,  0,  0>>

LevelDat == [stem |-> "level", ext |-> ".dat"]
ChunkNbt == [stem |-> "chunk", ext |-> ".nbt"]

\* what the files hold at the start: gzip or raw, whatever the extension
SampleDisks ==
  {[f \in Files |-> IF f = LevelDat THEN a ELSE b] :
     a \in {Compress(StreamA), StreamA}, b \in {Compress(StreamB), StreamB}}

\* the texts typed into the search field ("", "a") and into a cell ("7", "x")
SearchTexts == {<<>>, <<97>>}
EditTexts == {<<55>>, <<120>>}

Op(op, f, i, c, t) == [op |-> op, file |-> f, idx |-> i, col |-> c, text |-> t]

NoSession == [ok |-> FALSE, stream |-> <<>>, strict |-> FALSE, touched |-> FALSE]

\* NBTViewer.__init__ / initUI: no nbtFile, searchResults or searchResultIndex
\* attribute yet; Previous and Next disabled
InitGui ==
  /\ attrs = {}
  /\ nbtFile = [isNone |-> TRUE, root |-> EmptyCompound]
  /\ tree = <<>>
  /\ treeGen = 0
  /\ searchText = <<>>
  /\ searchResultLabel = [text |-> <<>>, visible |-> TRUE]
  /\ prevEnabled = FALSE
  /\ nextEnabled = FALSE
  /\ searchResults = <<>>
  /\ searchResultIndex = 0
  /\ exc = ""
  /\ last = Op("init", NoFile, 0, 0, <<>>)
  /\ session = NoSession
  /\ opens = 0
  /\ edits = 0

Init ==
  /\ disk \in SampleDisks
  /\ InitGui

HasTree == "nbtFile" \in attrs /\ ~nbtFile.isNone

\* self.tree.clear(): the rows are deleted
ClearedGen == IF tree # <<>> THEN treeGen + 1 ELSE treeGen

\* the body of openFile after the dialog returned f and `loaded` was read
OpenWith(f, loaded) ==
  /\ attrs' = attrs \cup {"nbtFile"}
  /\ treeGen' = ClearedGen
  /\ IF loaded.ok
     THEN LET st == populateTree(loaded.tag) IN
          /\ nbtFile' = [isNone |-> FALSE, root |-> st.root]
          /\ tree' = st.rows
     ELSE /\ nbtFile' = [isNone |-> TRUE, root |-> EmptyCompound]
          /\ tree' = <<>>
  /\ exc' = loaded.exc
  /\ session' = [ok |-> loaded.ok, stream |-> loaded.stream,
                 strict |-> loaded.strict, touched |-> FALSE]
  /\ last' = Op("openFile", f, 0, 0, <<>>)
  /\ opens' = opens + 1
  /\ UNCHANGED <<disk, gui, found, edits>>

\* def openFile(self)
openFile(f) ==
  /\ exc = ""
  /\ opens < MaxOpens
  /\ \/ /\ splitext(f) = ".dat"
        /\ OpenWith(f, ReadDat(disk[f]))
     \/ /\ splitext(f) # ".dat"
        /\ OpenWith(f, ReadOther(disk[f]))

\* def closeFile(self)
closeFile ==
  /\ exc = ""
  /\ attrs' = attrs \cup {"nbtFile"}
  /\ nbtFile' = [isNone |-> TRUE, root |-> EmptyCompound]
  /\ tree' = <<>>
  /\ treeGen' = ClearedGen
  /\ last' = Op("closeFile", NoFile, 0, 0, <<>>)
  /\ UNCHANGED <<disk, gui, found, exc, session, opens, edits>>

SaveWith(f, written) ==
  /\ disk' = [disk EXCEPT ![f] = written.content]
  /\ exc' = written.exc
  /\ last' = Op("saveFile", f, 0, 0, <<>>)
  /\ UNCHANGED <<attrs, nbtFile, tree, treeGen, gui, found, session, opens, edits>>

\* def saveFile(self)
saveFile(f) ==
  /\ exc = ""
  /\ \/ /\ splitext(f) = ".dat"
        /\ SaveWith(f, WriteDat(disk[f], HasTree, nbtFile.root))
     \/ /\ splitext(f) # ".dat"
        /\ SaveWith(f, WriteOther(disk[f], HasTree, nbtFile.root))

\* def onSearchInputChanged(self, text), the slot of searchField.textChanged
onSearchInputChanged(text) ==
  /\ exc = ""
  /\ text # searchText
  /\ searchText' = text
  /\ IF text # <<>>
     THEN /\ nextEnabled' = TRUE
          /\ prevEnabled' = TRUE
          /\ searchResultLabel' = [searchResultLabel EXCEPT !.visible = TRUE]
     ELSE /\ nextEnabled' = FALSE
          /\ prevEnabled' = FALSE
          /\ searchResultLabel' = [text |-> <<>>, visible |-> FALSE]
  /\ last' = Op("onSearchInputChanged", NoFile, 0, 0, text)
  /\ UNCHANGED <<disk, attrs, nbtFile, tree, treeGen, found, exc, session, opens, edits>>

\* the tail shared by search, nextSearchResult and prevSearchResult:
\* updateSearchResultLabel() and showCurrentSearchResult()
ShowAt(results, index) ==
  LET shown == showCurrentSearchResult([root |-> nbtFile.root, rows |-> tree],
                                       results, index, treeGen)
  IN  /\ searchResultLabel' =
           [searchResultLabel EXCEPT !.text = updateSearchResultLabel(results, index)]
      /\ nbtFile' = [nbtFile EXCEPT !.root = shown.root]
      /\ tree' = shown.rows
      /\ exc' = shown.exc
      /\ session' = [session EXCEPT !.touched = TRUE]

\* def search(self), the slot of searchAction and of returnPressed
search ==
  /\ exc = ""
  /\ LET results == Matches(tree, searchText, treeGen, 1) IN
     /\ attrs' = attrs \cup {"searchResults", "searchResultIndex"}
     /\ searchResults' = results
     /\ searchResultIndex' = 0
     /\ ShowAt(results, 0)
  /\ prevEnabled' = TRUE
  /\ nextEnabled' = TRUE
  /\ last' = Op("search", NoFile, 0, 0, searchText)
  /\ UNCHANGED <<disk, treeGen, searchText, opens, edits>>

\* nextSearchResult (step = 1) and prevSearchResult (step = -1)
Navigate(op, step) ==
  /\ exc = ""
  /\ last' = Op(op, NoFile, 0, 0, <<>>)
  /\ IF "searchResults" \notin attrs
     THEN /\ exc' = "AttributeError"
          /\ UNCHANGED <<nbtFile, tree, searchResultLabel, searchResultIndex, session>>
     ELSE IF searchResults # <<>>
     THEN LET index == (searchResultIndex + step) % Len(searchResults) IN
          /\ searchResultIndex' = index
          /\ ShowAt(searchResults, index)
     ELSE UNCHANGED <<nbtFile, tree, searchResultLabel, searchResultIndex, exc, session>>
  /\ UNCHANGED <<disk, attrs, treeGen, searchText, prevEnabled, nextEnabled,
                 searchResults, opens, edits>>

\* def nextSearchResult(self), the slot of the Next action
nextSearchResult == nextEnabled /\ Navigate("nextSearchResult", 1)

\* def prevSearchResult(self), the slot of the Previous action
prevSearchResult == prevEnabled /\ Navigate("prevSearchResult", -1)

\* the user commits `text` in cell (i, column): the editor stores it in the
\* item, and a changed text emits itemChanged -> updateNBT(item, column)
editItem(i, column, text) ==
  /\ exc = ""
  /\ edits < MaxEdits
  /\ tree[i].editable
  /\ text # (IF column = 0 THEN tree[i].text0 ELSE tree[i].text1)
  /\ LET st == SetText([root |-> nbtFile.root, rows |-> tree], i, column, text) IN
     /\ nbtFile' = [nbtFile EXCEPT !.root = st.root]
     /\ tree' = st.rows
  /\ session' = [session EXCEPT !.touched = TRUE]
  /\ last' = Op("updateNBT", NoFile, i, column, text)
  /\ edits' = edits + 1
  /\ UNCHANGED <<disk, attrs, treeGen, gui, found, exc, opens>>

Next ==
  \/ \E f \in Files : openFile(f)
  \/ closeFile
  \/ \E f \in Files : saveFile(f)
  \/ \E text \in SearchTexts : onSearchInputChanged(text)
  \/ search
  \/ nextSearchResult
  \/ prevSearchResult
  \/ \E i \in 1..Len(tree), column \in {0, 1}, text \in EditTexts : editItem(i, column, text)

Spec == Init /\ [][Next]_vars

(***************************************************************************)
(* The codec on its own: every stream made of a root header, up to         *)
(* MaxChunks entries and a tail, gzip-compressed in both files; only       *)
(* open, save and close act.                                               *)
(***************************************************************************)
\* root compound named "a"; a lone End byte as the root
Headers == {<<10, 0, 1, 97>>, <<0>>}

\* the root's End; none (a cut-off stream); End and a byte after it
Tails == {<<0>>, <<>>, <<0, 97>>}

Chunks ==
  { <<1, 0, 1, 97, 255>>,                                  \* Byte a = -1
    <<2, 0, 1, 98, 1, 2>>,                                 \* Short b = 258
    <<8, 0, 1, 97, 0, 1, 98>>,                             \* String a = "b"
    <<9, 0, 1, 98, 1, 0, 0, 0, 2, 8, 9>>,                  \* List b of Bytes 8, 9
    <<9, 0, 1, 99, 0, 0, 0, 0, 0>>,                        \* List c, no kind, empty
    <<9, 0, 1, 99, 1, 0, 0, 0, 0>>,                        \* List c of Byte, empty
    <<9, 0, 1, 99, 1, 255, 255, 255, 255>>,                \* List c, count -1
    <<9, 0, 1, 100, 10, 0, 0, 0, 1, 1, 0, 1, 97, 5, 0>>,   \* List d of one Compound {a: 5}
    <<10, 0, 1, 100, 8, 0, 1, 97, 0, 0, 0>> }              \* Compound d {a: ""}

RECURSIVE Bodies(_)
\* the concatenations of up to n chunks
Bodies(n) ==
  IF n = 0 THEN {<<>>}
  ELSE LET shorter == Bodies(n - 1) IN
       shorter \cup {b \o c : b \in shorter, c \in Chunks}

Streams == {h \o b \o t : h \in Headers, b \in Bodies(MaxChunks), t \in Tails}

InitCodec ==
  /\ \E s \in Streams : disk = [f \in Files |-> Compress(s)]
  /\ InitGui

NextCodec ==
  \/ \E f \in Files : openFile(f)
  \/ closeFile
  \/ \E f \in Files : saveFile(f)

SpecCodec == InitCodec /\ [][NextCodec]_vars

(***************************************************************************)
(* Properties.                                                             *)
(***************************************************************************)
\* what the file chosen by the last handler holds
LastContent == disk[last.file]

\* a decimal integer literal, as int() accepts it
IsIntLiteral(text) ==
  LET digits == IF text # <<>> /\ text[1] = 45 THEN Tail(text) ELSE text
  IN  digits # <<>> /\ \A i \in 1..Len(digits) : digits[i] \in 48..57

\* C1: a stream that the decoder accepts without leniency, opened and then
\* saved with no handler in between, is written so that the decompressed file
\* equals the stream byte for byte
C1_RoundTrip ==
  (last.op = "saveFile" /\ HasTree /\ session.ok /\ session.strict /\ ~session.touched)
    => /\ exc = ""
       /\ Decompress(LastContent) = [ok |-> TRUE, bytes |-> session.stream]

\* a nested, well-formed stream was opened and saved
C1_Witness ==
  /\ last.op = "saveFile"
  /\ HasTree /\ session.ok /\ session.strict /\ ~session.touched
  /\ \E i \in 1..Len(nbtFile.root.tags) :
       /\ nbtFile.root.tags[i].id = TAG_List
       /\ nbtFile.root.tags[i].tags # <<>>
  /\ Len(nbtFile.root.tags) >= 2

\* C2: a value edit whose text is no integer literal, on a Byte or Short
\* leaf, leaves the leaf's value as it was
C2_InvalidLiteralKeepsValue ==
  [][(/\ last'.op = "updateNBT"
      /\ last'.col = 1
      /\ TagAt(nbtFile.root, tree[last'.idx].path).id \in {TAG_Byte, TAG_Short}
      /\ ~IsIntLiteral(last'.text))
     => TagAt(nbtFile'.root, tree[last'.idx].path).value
          = TagAt(nbtFile.root, tree[last'.idx].path).value]_vars

\* C3: openFile decompresses exactly when the content starts with the gzip
\* magic, whatever the extension, and so opens every decodable file
C3_ContentSniffing ==
  last.op = "openFile" =>
    LET c   == LastContent
        raw == IF Len(c) >= 2 /\ SubSeq(c, 1, 2) = GzipMagic THEN Decompress(c).bytes ELSE c
    IN  Decode(raw).ok => (exc = "" /\ HasTree /\ nbtFile.root = Decode(raw).tag)

\* C4: no handler uses a row of a tree that was closed or replaced
C4_NoStaleRowUsed == exc # "RuntimeError"

\* C5: a value edit on a Compound or List row leaves that tag as it was
C5_ContainerNotValueEditable ==
  [][(/\ last'.op = "updateNBT"
      /\ last'.col = 1
      /\ IsContainer(TagAt(nbtFile.root, tree[last'.idx].path)))
     => TagAt(nbtFile'.root, tree[last'.idx].path)
          = TagAt(nbtFile.root, tree[last'.idx].path)]_vars

\* C6: a save of an encodable tree writes the encoding gzip-compressed to a
\* .dat file and raw to any other file
C6_ModeByExtension ==
  (last.op = "saveFile" /\ HasTree /\ Encode(nbtFile.root).ok) =>
    LastContent = IF splitext(last.file) = ".dat"
                  THEN Compress(Encode(nbtFile.root).bytes)
                  ELSE Encode(nbtFile.root).bytes

RECURSIVE PreOrder(_, _, _)
\* the paths below the tag at path, from its k-th child on, parents first
PreOrder(root, path, k) ==
  IF k > Len(TagAt(root, path).tags) THEN <<>>
  ELSE <<Append(path, k)>> \o PreOrder(root, Append(path, k), 1) \o PreOrder(root, path, k + 1)

\* the raw name of a tag: its name in a Compound, its index in a List
RawName(root, path) ==
  LET parent == TagAt(root, SubSeq(path, 1, Len(path) - 1))
  IN  IF parent.id = TAG_List THEN StrNat(path[Len(path)] - 1) ELSE TagAt(root, path).name

\* the rows right after a load, given what is put before a leaf's raw name
Projection(prefix) ==
  (last.op = "openFile" /\ exc = "") =>
    /\ [i \in 1..Len(tree) |-> tree[i].path] = PreOrder(nbtFile.root, <<>>, 1)
    /\ \A i \in 1..Len(tree) :
         LET tag  == TagAt(nbtFile.root, tree[i].path)
             name == RawName(nbtFile.root, tree[i].path)
         IN  IF tag.id \in {TAG_Compound, TAG_List}
             THEN /\ tree[i].text0 = <<91>> \o StrNat(Len(tag.tags)) \o <<93, 32>> \o name
                  /\ tree[i].text1 = <<>>
             ELSE /\ tree[i].text0 = prefix \o name
                  /\ tree[i].text1 = PyStr(tag.value)

\* C7 as stated: a leaf row shows exactly the raw name
C7_LeafShowsRawName == Projection(<<>>)

\* C7 as amended: every tag below the root has one row, in the tree's order; a
\* container shows "[n] name" and no value, a leaf shows U+00A0 and the raw
\* name, and its value as str() gives it
C7_Projection == Projection(<<160>>)

\* a tree with a container row and leaf rows was loaded
C7_Witness ==
  /\ last.op = "openFile" /\ exc = ""
  /\ \E i, j \in 1..Len(tree) :
       /\ IsContainer(TagAt(nbtFile.root, tree[i].path))
       /\ Len(tree[j].path) = 2

\* C8: a save while no tree is loaded leaves every file as it was
C8_NoTreeNoWrite ==
  [][(last'.op = "saveFile" /\ ~HasTree) => disk' = disk]_vars

\* C9: right after a load every tag is as decoded: populating the rows
\* assigned no value
C9_PopulateKeepsTags ==
  (last.op = "openFile" /\ exc = "") =>
    /\ HasTree
    /\ nbtFile.root = Decode(Decompress(LastContent).bytes).tag

\* a load that made leaf rows, each with its value text and its tag reference
C9_Witness ==
  /\ last.op = "openFile" /\ exc = ""
  /\ \E i \in 1..Len(tree) : tree[i].text1 # <<>> /\ tree[i].hasTag

\* C10: while Next or Previous is enabled, searchResults and
\* searchResultIndex exist and the index is within a non-empty result list
C10_CursorDefinedInRange ==
  (nextEnabled \/ prevEnabled) =>
    /\ {"searchResults", "searchResultIndex"} \subseteq attrs
    /\ searchResults # <<>> => searchResultIndex \in 0..(Len(searchResults) - 1)

====
